---- MODULE Spec2Model ----
(***************************************************************************)
(* Model of the fetch-orchestration core of the crawler:                   *)
(*   - URLQueue            (src/storage/checkpoints.py)  the durable        *)
(*                         frontier kept in four JSON files                 *)
(*   - AdaptiveRateLimiter (src/pipeline/fetcher.py)     per-domain delay   *)
(*   - HTTPFetcherStage    (src/pipeline/fetcher.py)     one fetch attempt  *)
(*   - PipelineManager     (src/pipeline/manager.py)     discovery, fetch   *)
(*                         loop, checkpoint, resume                         *)
(*                                                                         *)
(* Delays are fixed-point numbers in milliseconds (1.0 s = 1000); a         *)
(* product with a decimal factor is the integer part of the exact product.  *)
(* The clock counts ticks of ten minutes.                                   *)
(***************************************************************************)
EXTENDS Integers, Sequences, FiniteSets, TLC

VARIABLES
    \* ---- the four queue files of one job (URLQueue) ----
    pending_file, processing_file, completed_file, failed_file,
    \* ---- history of the queue operations (observation only) ----
    everAdded,      \* URLs ever passed to add_pending
    lastOp,         \* the last queue operation and its arguments
    nops,           \* number of operations performed so far
    \* ---- HTTPFetcherStage and its AdaptiveRateLimiter (one domain) ----
    rate_limiter,   \* rate_limiters[domain]
    blocked_domains,\* domain -> time it was marked blocked
    now,            \* get_current_time(), in ticks of ten minutes
    \* ---- history of the limiter and fetcher calls (observation only) ----
    streak429,      \* on_error(429) calls since the last on_success
    page,           \* the page returned by the last process_item call
    lastFetch,      \* what the last process_item call did
    scenario,       \* how far the responses so far follow 200, 429, 429, 429
    \* ---- PipelineManager and its discovery stages ----
    current_job,    \* CrawlJob: status and counters
    pipeline_state, \* PipelineState: current stage and queue counts
    checkpoint,     \* the checkpoint file of the job
    discovered_urls,\* URLDiscoveryStage.discovered_urls
    seen_urls,      \* LinkDiscoveryStage.seen_urls
    pc,             \* where the manager is in start / run_pipeline / resume
    batch,          \* the batch returned by get_pending_batch, not yet committed
    loop,           \* locals of _run_fetch_loop
    resumes,        \* number of resume_job calls so far
    atStop,         \* URLs pending and processing when the run was interrupted
    io              \* the checkpoint directory: whether writes succeed, and what
                    \* the checkpoint writes of this run have met

queueVars == <<pending_file, processing_file, completed_file, failed_file>>
histVars  == <<everAdded, lastOp, nops>>
limVars   == <<rate_limiter, blocked_domains, now>>
fetchHist == <<streak429, page, lastFetch, scenario>>
jobVars   == <<current_job, pipeline_state, checkpoint, discovered_urls, seen_urls,
               pc, batch, loop, resumes, atStop, io>>
vars      == <<queueVars, histVars, limVars, fetchHist, jobVars>>

-----------------------------------------------------------------------------
(* Bounds of the model *)

\* number of URLQueue API calls explored in SpecQueue
MaxOps == 4
\* longest page list handed to one URLQueue call in SpecQueue
MaxArgs == 2
\* number of process_item calls and clock steps explored in SpecFetch
MaxFetches == 5
\* number of AdaptiveRateLimiter calls explored in SpecLimiter
MaxLimiterOps == 3
\* last tick of the clock in SpecLimiter
MaxLimiterTime == 1
\* batch_size of the fetch loop (10 in manager.py), scaled to the three URLs
BatchSize == 1
\* config.max_pages, scaled
MaxPages == 3
\* config.checkpoint_interval, scaled
CheckpointInterval == 2
\* number of resume_job calls explored in SpecJob
MaxResumes == 1

\* the URLs of the crawled site
URLs == {"A", "B", "C"}

Min(a, b) == IF a <= b THEN a ELSE b
Max(a, b) == IF a >= b THEN a ELSE b

-----------------------------------------------------------------------------
(* Page *)

PageStatus == {"discovered", "fetching", "fetched", "extracting", "extracted",
               "analyzing", "analyzed", "failed"}

\* the members of PageStatus before FAILED, in the order of the enum
StatusOrder == <<"discovered", "fetching", "fetched", "extracting", "extracted",
                 "analyzing", "analyzed">>

StatusRank(s) == CHOOSE i \in 1..Len(StatusOrder) : StatusOrder[i] = s

\* a step along the status order, or to failed
StatusForward(a, b) ==
    \/ b = "failed"
    \/ a # "failed" /\ StatusRank(b) >= StatusRank(a)

\* Page(url=u, job_id=...) with the dataclass defaults; error_message is the
\* list of recorded error texts (empty = None)
NewPage(u) ==
    [url |-> u, status |-> "discovered", status_code |-> 0,
     content_type |-> "none", html_content |-> "none",
     extraction_method |-> "none", error_message |-> <<>>, retry_count |-> 0]

\* Page.max_retries, the dataclass default
max_retries == 3

\* Page.can_retry
CanRetry(p) == p.retry_count < max_retries

\* Page.mark_failed: the status becomes failed, the message is replaced
PageMarkFailed(p, error) ==
    [p EXCEPT !.status = "failed", !.error_message = <<error>>]

\* Page.add_error: append to the message, status unchanged
PageAddError(p, error) ==
    [p EXCEPT !.error_message = Append(p.error_message, error)]

-----------------------------------------------------------------------------
(* URLQueue: each file holds the JSON array written by _save_pages *)

\* one page through json.dump (all dataclass fields) and back through
\* _load_pages, which restores url, status and the listed optional fields;
\* extraction_method is not in that list and comes back as the default
LoadPage(p) == [p EXCEPT !.extraction_method = "none"]

LoadPages(file) == [i \in 1..Len(file) |-> LoadPage(file[i])]

\* _append_to_file with the new pages put in front of the existing ones
AppendToFileInFront(file, pages) == pages \o LoadPages(file)

\* _append_to_file: load, extend, save
AppendToFile(file, pages) == LoadPages(file) \o pages

\* pending_pages[:batch_size] and pending_pages[batch_size:]
BatchOf(file, n) == SubSeq(LoadPages(file), 1, Min(n, Len(file)))
RemainingOf(file, n) == SubSeq(LoadPages(file), n + 1, Len(file))

UrlsOf(pages) == {pages[i].url : i \in 1..Len(pages)}

\* [p for p in processing_pages if p.url not in urls]
WithoutUrls(file, urls) == SelectSeq(LoadPages(file), LAMBDA p : p.url \notin urls)

\* get_counts
GetCounts ==
    [pending |-> Len(pending_file), processing |-> Len(processing_file),
     completed |-> Len(completed_file), failed |-> Len(failed_file)]

\* number of entries with URL u in a page list
Occurrences(pages, u) == Cardinality({i \in 1..Len(pages) : pages[i].url = u})

\* number of entries with URL u in the four queues together
InQueues(u) ==
    Occurrences(pending_file, u) + Occurrences(processing_file, u)
    + Occurrences(completed_file, u) + Occurrences(failed_file, u)

\* add_pending(pages)
AddPending(pages) ==
    /\ pending_file' = AppendToFile(pending_file, pages)
    /\ UNCHANGED <<processing_file, completed_file, failed_file>>

\* get_pending_batch(batch_size), both writes done
GetPendingBatch(n) ==
    IF Len(pending_file) = 0
    THEN UNCHANGED queueVars
    ELSE /\ pending_file' = RemainingOf(pending_file, n)
         /\ processing_file' = AppendToFile(processing_file, BatchOf(pending_file, n))
         /\ UNCHANGED <<completed_file, failed_file>>

\* get_pending_batch interrupted after the rewrite of the pending file
GetPendingBatchCrash(n) ==
    /\ Len(pending_file) > 0
    /\ pending_file' = RemainingOf(pending_file, n)
    /\ UNCHANGED <<processing_file, completed_file, failed_file>>

\* mark_completed(pages)
MarkCompleted(pages) ==
    /\ processing_file' = WithoutUrls(processing_file, UrlsOf(pages))
    /\ completed_file' = AppendToFile(completed_file, pages)
    /\ UNCHANGED <<pending_file, failed_file>>

\* mark_completed interrupted after the rewrite of the processing file
MarkCompletedCrash(pages) ==
    /\ processing_file' = WithoutUrls(processing_file, UrlsOf(pages))
    /\ UNCHANGED <<pending_file, completed_file, failed_file>>

\* mark_failed(pages)
MarkFailed(pages) ==
    /\ processing_file' = WithoutUrls(processing_file, UrlsOf(pages))
    /\ failed_file' = AppendToFile(failed_file, pages)
    /\ UNCHANGED <<pending_file, completed_file>>

\* mark_failed interrupted after the rewrite of the processing file
MarkFailedCrash(pages) ==
    /\ processing_file' = WithoutUrls(processing_file, UrlsOf(pages))
    /\ UNCHANGED <<pending_file, completed_file, failed_file>>


-----------------------------------------------------------------------------
(* AdaptiveRateLimiter *)

\* CrawlConfig.base_delay and max_delay (1.0 s and 30.0 s), and the base
\* delay CrawlConfig.from_domain sets for large universities (2.0 s)
DefaultBaseDelay == 1000
DefaultMaxDelay == 30000
UniversityBaseDelay == 2000

\* thresholds set in AdaptiveRateLimiter.__init__
max_response_history == 50
fast_response_threshold == 500
slow_response_threshold == 3000

\* integer part of x * num / den
Scale(x, num, den) == (x * num) \div den

\* time value of an unset Optional[datetime]
NoTime == -1

\* AdaptiveRateLimiter(base_delay, max_delay)
NewRateLimiter(base, max) ==
    [base_delay |-> base, max_delay |-> max, current_delay |-> base,
     last_request_time |-> NoTime, consecutive_errors |-> 0,
     success_count |-> 0, response_times |-> <<>>,
     rate_limit_violations |-> 0, last_rate_limit_time |-> NoTime,
     server_error_count |-> 0, blocking_indicators |-> 0]

RECURSIVE SumSeq(_)
SumSeq(s) == IF s = <<>> THEN 0 ELSE Head(s) + SumSeq(Tail(s))

\* response_times[-10:]
LastTen(s) == SubSeq(s, Max(1, Len(s) - 9), Len(s))

\* _adjust_delay_from_response_time; the average of the last ten response
\* times is compared through their sum
AdjustDelayFromResponseTime(r, response_time) ==
    IF Len(r.response_times) < 5 THEN r
    ELSE LET n == Min(Len(r.response_times), 10)
             total == SumSeq(LastTen(r.response_times))
         IN  IF total < fast_response_threshold * n
                /\ response_time < fast_response_threshold
             THEN IF r.current_delay > r.base_delay
                  THEN [r EXCEPT !.current_delay =
                            Max(r.base_delay, Scale(r.current_delay, 95, 100))]
                  ELSE r
             ELSE IF total > slow_response_threshold * n
             THEN [r EXCEPT !.current_delay =
                       Min(r.max_delay, Scale(r.current_delay, 11, 10))]
             ELSE r

\* the sustained-success decay at the end of on_success
SuccessDecay(r) ==
    IF r.success_count > 10 /\ r.current_delay > r.base_delay
    THEN [r EXCEPT !.current_delay = Max(r.base_delay, Scale(r.current_delay, 9, 10)),
                   !.success_count = 0]
    ELSE r

\* on_success(response_time)
OnSuccess(r, response_time) ==
    LET r1 == [r EXCEPT !.consecutive_errors = 0,
                        !.success_count = r.success_count + 1,
                        !.server_error_count = 0]
        tracked == Append(r1.response_times, response_time)
        r2 == IF response_time > 0
              THEN [r1 EXCEPT !.response_times =
                        IF Len(tracked) > max_response_history
                        THEN Tail(tracked) ELSE tracked]
              ELSE r1
    IN  SuccessDecay(AdjustDelayFromResponseTime(r2, response_time))

\* Response headers, as far as _analyze_blocking_indicators reads them:
\*   zero   number of rate-limit headers whose value is 0
\*   retry  a Retry-After header is present
\*   prot   number of protection headers (cf-ray, x-sucuri-id, x-drupal-cache)
NoHeaders == [zero |-> 0, retry |-> FALSE, prot |-> 0]

\* _analyze_blocking_indicators: the indicators the headers add
HeaderIndicators(status_code, headers) ==
    2 * headers.zero
    + (IF headers.retry THEN 2 ELSE 0)
    + (IF status_code \in {403, 429, 503} THEN headers.prot ELSE 0)

\* ErrorBranch with the 429 branch not clamped to max_delay
ErrorBranchUnclamped(r, status_code, t) ==
    IF status_code = 429
    THEN [r EXCEPT !.rate_limit_violations = r.rate_limit_violations + 1,
                   !.last_rate_limit_time = t,
                   !.current_delay = Scale(r.current_delay, 5, 2),
                   !.blocking_indicators = r.blocking_indicators + 2]
    ELSE [r EXCEPT !.current_delay = Min(r.max_delay, Scale(r.current_delay, 6, 5))]

\* the status-code branches of on_error; status_code 0 stands for None
ErrorBranch(r, status_code, t) ==
    IF status_code = 429
    THEN [r EXCEPT !.rate_limit_violations = r.rate_limit_violations + 1,
                   !.last_rate_limit_time = t,
                   !.current_delay = Min(r.max_delay, Scale(r.current_delay, 5, 2)),
                   !.blocking_indicators = r.blocking_indicators + 2]
    ELSE IF status_code = 403
    THEN [r EXCEPT !.blocking_indicators = r.blocking_indicators + 3,
                   !.current_delay = Min(r.max_delay, Scale(r.current_delay, 2, 1))]
    ELSE IF status_code # 0 /\ status_code >= 500
    THEN [r EXCEPT !.server_error_count = r.server_error_count + 1,
                   !.current_delay = Min(r.max_delay, Scale(r.current_delay, 3, 2)),
                   !.blocking_indicators =
                       IF r.server_error_count + 1 > 3
                       THEN r.blocking_indicators + 1 ELSE r.blocking_indicators]
    ELSE IF status_code = 404
    THEN [r EXCEPT !.current_delay = Min(r.max_delay, Scale(r.current_delay, 11, 10))]
    ELSE [r EXCEPT !.current_delay = Min(r.max_delay, Scale(r.current_delay, 6, 5)),
                   !.blocking_indicators = r.blocking_indicators + 1]

\* on_error(status_code, headers) at time t
OnError(r, status_code, headers, t) ==
    LET r1 == [r EXCEPT !.consecutive_errors = r.consecutive_errors + 1,
                        !.success_count = 0]
        r2 == [r1 EXCEPT !.blocking_indicators =
                   r1.blocking_indicators + HeaderIndicators(status_code, headers)]
    IN  ErrorBranch(r2, status_code, t)

\* IsBlocked without the check of rate_limit_violations
IsBlockedIgnoringViolations(r, t) ==
    \/ r.consecutive_errors > 5
    \/ r.blocking_indicators > 8
    \/ /\ r.last_rate_limit_time # NoTime
       /\ t - r.last_rate_limit_time < 1
       /\ r.consecutive_errors > 2

\* is_blocked at time t; ten minutes are one tick
IsBlocked(r, t) ==
    \/ r.consecutive_errors > 5
    \/ r.rate_limit_violations > 2
    \/ r.blocking_indicators > 8
    \/ /\ r.last_rate_limit_time # NoTime
       /\ t - r.last_rate_limit_time < 1
       /\ r.consecutive_errors > 2

\* get_blocking_severity at time t
GetBlockingSeverity(r, t) ==
    IF IsBlocked(r, t) THEN "blocked"
    ELSE IF r.blocking_indicators > 4 \/ r.consecutive_errors > 3 THEN "throttled"
    ELSE IF r.current_delay > r.base_delay * 2 THEN "limited"
    ELSE "normal"

\* wait(): sleeps at most current_delay, which is less than a tick, then
\* records the request time
Wait(r, t) == [r EXCEPT !.last_request_time = t]

\* _apply_degradation_strategy: what it does to the limiter
ApplyDegradation(r, severity) ==
    IF severity = "blocked"
    THEN [r EXCEPT !.current_delay = Min(r.max_delay, Scale(r.current_delay, 3, 1)),
                   !.blocking_indicators = Max(0, r.blocking_indicators - 5),
                   !.consecutive_errors = Max(0, r.consecutive_errors - 3)]
    ELSE IF severity = "throttled"
    THEN [r EXCEPT !.current_delay = Min(r.max_delay, Scale(r.current_delay, 9, 5))]
    ELSE IF severity = "limited"
    THEN [r EXCEPT !.current_delay = Min(r.max_delay, Scale(r.current_delay, 13, 10))]
    ELSE r

\* the domain all modelled pages belong to
Domain == "example.edu"

\* the one-hour cooldown, in ticks
CooldownTicks == 6

\* _mark_domain_blocked inside _apply_degradation_strategy("blocked")
DegradeBlockedDomains(bd, severity, t) ==
    IF severity = "blocked" THEN [d \in {Domain} |-> t] ELSE bd

\* _is_domain_blocked: the answer, and the dict after the expired entry is
\* deleted
IsDomainBlocked(bd, t) ==
    Domain \in DOMAIN bd /\ t < bd[Domain] + CooldownTicks

AfterDomainCheck(bd, t) ==
    IF Domain \in DOMAIN bd /\ ~(t < bd[Domain] + CooldownTicks)
    THEN [d \in {} |-> 0] ELSE bd

\* a fetcher that has fetched nothing yet, with the limiter of its domain
InitFetcher(base, max) ==
    /\ rate_limiter = NewRateLimiter(base, max)
    /\ blocked_domains = [d \in {} |-> 0]
    /\ now = 0
    /\ streak429 = 0
    /\ page = NewPage("A")
    /\ lastFetch = [op |-> "none"]
    /\ scenario = 0

-----------------------------------------------------------------------------
(* HTTPFetcherStage *)

\* BotDetector.should_use_browser
ShouldUseBrowser(p) ==
    \/ \E i \in 1..Len(p.error_message) : p.error_message[i] = "Bot challenge detected"
    \/ /\ p.retry_count > 1
       /\ p.status = "failed"
       /\ p.status_code \in {403, 429}

\* FetchWithBrowser without mark_failed when the browser reports a failure:
\* the page stays as BrowserFetcher.fetch set it before the crawl
FetchWithBrowserUnmarked(p, browser) ==
    IF browser = "disabled"
    THEN PageMarkFailed(p, "Browser fallback disabled in configuration")
    ELSE IF browser = "success"
    THEN [p EXCEPT !.html_content = "browser", !.status_code = 200,
                   !.content_type = "text/html",
                   !.status = "fetched", !.extraction_method = "browser"]
    ELSE [p EXCEPT !.status = "fetching"]

\* _fetch_with_browser and BrowserFetcher.fetch; browser is what the browser
\* layer does: "disabled" (no pool), "success", "failure" (result.success is
\* false) or "exception"
FetchWithBrowser(p, browser) ==
    IF browser = "disabled"
    THEN PageMarkFailed(p, "Browser fallback disabled in configuration")
    ELSE IF browser = "success"
    THEN [p EXCEPT !.html_content = "browser", !.status_code = 200,
                   !.content_type = "text/html",
                   !.status = "fetched", !.extraction_method = "browser"]
    ELSE IF browser = "failure"
    THEN PageMarkFailed(p, "Browser fetch failed")
    ELSE PageMarkFailed(p, "Browser fetch error")

\* the result of one process_item call
FetchResult(p, r, bd, http, browser) ==
    [page |-> p, rate_limiter |-> r, blocked_domains |-> bd,
     http_requests |-> http, browser_calls |-> browser]

\* AfterRequest with every 200 response taken as content, challenge or not
AfterRequestAcceptingChallenge(p, r, bd, t, inp) ==
    IF inp.outcome = "response" /\ inp.status_code = 200
    THEN FetchResult([p EXCEPT !.status_code = 200, !.html_content = "http",
                               !.content_type = inp.content_type,
                               !.status = "fetched", !.extraction_method = "requests"],
                     OnSuccess(r, inp.response_time), bd, 1, 0)
    ELSE FetchResult(PageMarkFailed(p, "HTTP error"),
                     OnError(r, inp.status_code, inp.headers, t), bd, 1, 0)

\* process_item from session.get on: inp.outcome is "response" or the
\* exception raised; a response has status_code, redirect (the final URL, ""
\* without redirect), challenge (is_bot_challenge_response), headers and
\* response_time, content_type (the content-type header)
AfterRequest(p, r, bd, t, inp) ==
    IF inp.outcome = "response"
    THEN LET p1 == [p EXCEPT !.status_code = inp.status_code,
                             !.content_type = inp.content_type,
                             !.url = IF inp.redirect # "" THEN inp.redirect ELSE p.url]
         IN  IF inp.status_code = 200
             THEN IF inp.challenge
                  THEN FetchResult(
                           FetchWithBrowser(
                               [p1 EXCEPT !.error_message = <<"Bot challenge detected">>,
                                          !.status = "discovered"],
                               inp.browser),
                           r, bd, 1, 1)
                  ELSE FetchResult(
                           [p1 EXCEPT !.html_content = "http", !.status = "fetched",
                                      !.extraction_method = "requests"],
                           OnSuccess(r, inp.response_time), bd, 1, 0)
             ELSE FetchResult(PageMarkFailed(p1, "HTTP error"),
                              OnError(r, inp.status_code, inp.headers, t), bd, 1, 0)
    ELSE FetchResult(PageMarkFailed(p, inp.outcome),
                     OnError(r, 0, NoHeaders, t), bd, 1, 0)

\* the statuses BrowserFetcher.fetch and _fetch_with_browser assign, with a
\* failed browser fetch putting the page back to discovered
BrowserStatusesRequeueing(browser) ==
    IF browser = "disabled" THEN <<"failed">>
    ELSE IF browser = "success" THEN <<"fetching", "fetched">>
    ELSE <<"fetching", "failed", "discovered">>

\* the statuses _fetch_with_browser and BrowserFetcher.fetch assign to the
\* page, in order: FETCHING before the crawl, then FETCHED or mark_failed
BrowserStatuses(browser) ==
    IF browser = "disabled" THEN <<"failed">>
    ELSE IF browser = "success" THEN <<"fetching", "fetched">>
    ELSE <<"fetching", "failed">>

\* the statuses process_item assigns to the page p in the call that gave
\* res, in order: none for a page that is not discovered, mark_failed alone
\* for a blocked domain, FETCHING before session.get, DISCOVERED again when
\* the response is a challenge
ProcessItemStatuses(p, res, inp) ==
    IF p.status # "discovered" THEN <<>>
    ELSE IF res.http_requests = 0
    THEN IF res.browser_calls = 1 THEN BrowserStatuses(inp.browser) ELSE <<"failed">>
    ELSE IF res.browser_calls = 1
    THEN <<"fetching", "discovered">> \o BrowserStatuses(inp.browser)
    ELSE <<"fetching", res.page.status>>

\* the limiter of the domain when process_item sends its HTTP request: after
\* the degradation for a throttled domain and after wait
LimiterAtRequest(r, t) ==
    Wait(IF GetBlockingSeverity(r, t) = "throttled" THEN ApplyDegradation(r, "throttled")
         ELSE r, t)

\* process_item(page, job) at time t with the limiter r of the page's domain
\* and the blocked_domains dict bd
ProcessItem(p, r, bd, t, inp) ==
    IF p.status # "discovered"
    THEN FetchResult(p, r, bd, 0, 0)
    ELSE IF ShouldUseBrowser(p)
    THEN FetchResult(FetchWithBrowser(p, inp.browser), r, bd, 0, 1)
    ELSE IF IsDomainBlocked(bd, t)
    THEN FetchResult(PageMarkFailed(p, "Domain temporarily blocked"), r, bd, 0, 0)
    ELSE IF IsBlocked(r, t)
    THEN FetchResult(PageMarkFailed(p, "Domain blocked - applying cooldown"),
                     ApplyDegradation(r, "blocked"),
                     DegradeBlockedDomains(AfterDomainCheck(bd, t), "blocked", t),
                     0, 0)
    ELSE LET r1 == IF GetBlockingSeverity(r, t) = "throttled"
                   THEN ApplyDegradation(r, "throttled") ELSE r
         IN  AfterRequest([p EXCEPT !.status = "fetching"], Wait(r1, t),
                          AfterDomainCheck(bd, t), t, inp)

-----------------------------------------------------------------------------
(* ContentExtractionStage, URLDiscoveryStage, LinkDiscoveryStage *)

\* ContentExtractionStage.should_process: a fetched page with content whose
\* content type contains text/html
ExtractionShouldProcess(p) ==
    /\ p.status = "fetched"
    /\ p.html_content # "none"
    /\ p.content_type = "text/html"

\* ContentExtractionStage.process_item; ok is whether BeautifulSoup and the
\* converters got through the HTML without an exception
ContentExtraction(p, ok) ==
    IF ok THEN [p EXCEPT !.status = "extracted"]
    ELSE PageMarkFailed(p, "Content extraction error")

\* the seed URL https://<domain>
SeedUrl == "A"

\* URLDiscoveryStage.process_item: the pages yielded for the sitemap URLs, in
\* the order the set is iterated, and discovered_urls afterwards
RECURSIVE DiscoverFrom(_, _, _)
DiscoverFrom(urls, i, discovered) ==
    IF i > Len(urls) THEN [pages |-> <<>>, discovered_urls |-> discovered]
    ELSE IF urls[i] \in discovered
    THEN DiscoverFrom(urls, i + 1, discovered)
    ELSE LET rest == DiscoverFrom(urls, i + 1, discovered \cup {urls[i]})
         IN  [rest EXCEPT !.pages = <<NewPage(urls[i])>> \o rest.pages]

UrlDiscovery(sitemap, discovered) ==
    DiscoverFrom(IF sitemap = <<>> THEN <<SeedUrl>> ELSE sitemap, 1, discovered)

\* what the filters of the discovery stages find about a URL: it passes them
\* all, or it is outside the job's domain, or has an excluded extension, or
\* matches an excluded pattern, or robots.txt disallows it
UrlClasses == {"ok", "foreign", "excluded_extension", "excluded_pattern",
               "robots_disallowed"}

\* URLDiscoveryStage._should_crawl_url: domain, robots.txt, extension,
\* pattern, not yet discovered
ShouldCrawlUrl(u, site, discovered) ==
    /\ site[u] # "foreign"
    /\ site[u] # "robots_disallowed"
    /\ site[u] # "excluded_extension"
    /\ site[u] # "excluded_pattern"
    /\ u \notin discovered

\* URLDiscoveryStage.process_item on a site whose URLs have the classes site
RECURSIVE DiscoverFromSite(_, _, _, _)
DiscoverFromSite(urls, i, site, discovered) ==
    IF i > Len(urls) THEN [pages |-> <<>>, discovered_urls |-> discovered]
    ELSE IF ~ShouldCrawlUrl(urls[i], site, discovered)
    THEN DiscoverFromSite(urls, i + 1, site, discovered)
    ELSE LET rest == DiscoverFromSite(urls, i + 1, site, discovered \cup {urls[i]})
         IN  [rest EXCEPT !.pages = <<NewPage(urls[i])>> \o rest.pages]

UrlDiscoveryOnSite(sitemap, site, discovered) ==
    DiscoverFromSite(IF sitemap = <<>> THEN <<SeedUrl>> ELSE sitemap, 1, site,
                     discovered)

\* LinkDiscoveryStage.process_item: links are the cleaned URLs of the page's
\* anchors in document order; the new pages come first, the page itself last
RECURSIVE LinksFrom(_, _, _)
LinksFrom(links, i, seen) ==
    IF i > Len(links) THEN [pages |-> <<>>, seen_urls |-> seen]
    ELSE IF links[i] \in seen
    THEN LinksFrom(links, i + 1, seen)
    ELSE LET rest == LinksFrom(links, i + 1, seen \cup {links[i]})
         IN  [rest EXCEPT !.pages = <<NewPage(links[i])>> \o rest.pages]

LinkDiscovery(p, links, seen) ==
    IF p.html_content = "none" \/ p.status # "fetched"
    THEN [pages |-> <<p>>, seen_urls |-> seen]
    ELSE LET found == LinksFrom(links, 1, seen)
         IN  [found EXCEPT !.pages = found.pages \o <<p>>]

-----------------------------------------------------------------------------
(* PipelineManager *)

\* consecutive empty batches that end the fetch loop
MaxEmptyBatches == 5

NoJob == [status |-> "none", total_pages |-> 0, processed_pages |-> 0,
          failed_pages |-> 0]

\* CrawlJob(job_id, domain, config)
NewJob == [status |-> "pending", total_pages |-> 0, processed_pages |-> 0,
           failed_pages |-> 0]

\* PipelineState(job_id, current_stage)
NewPipelineState(stage) ==
    [current_stage |-> stage, pending_urls |-> 0, processing_urls |-> 0,
     completed_urls |-> 0, failed_urls |-> 0]

NoCheckpoint == [exists |-> FALSE]

\* the members of the PipelineStage enum in the order of their definition
StageOrder == <<"discovery", "fetch", "extract", "analyze", "store", "export">>

StageRank(stage) == CHOOSE i \in 1..Len(StageOrder) : StageOrder[i] = stage

\* pipeline_state.update_progress(counts of the four files)
UpdateProgress(ps, pending, processing, completed, failed) ==
    [ps EXCEPT !.pending_urls = Len(pending), !.processing_urls = Len(processing),
               !.completed_urls = Len(completed), !.failed_urls = Len(failed)]

\* the file written by _save_checkpoint: save_checkpoint is called with the
\* job and the pipeline state only, so the four page lists are written empty
CheckpointOf(job, ps) ==
    [exists |-> TRUE, job |-> job, pipeline_state |-> ps,
     pending_pages |-> <<>>, processing_pages |-> <<>>,
     completed_pages |-> <<>>, failed_pages |-> <<>>]

\* load_checkpoint and _deserialize_checkpoint: the job and the pipeline
\* state field by field, the page lists through restore_pages, which
\* restores the fields _load_pages restores
DeserializeCheckpoint(c) ==
    [c EXCEPT !.pending_pages = LoadPages(@), !.processing_pages = LoadPages(@),
              !.completed_pages = LoadPages(@), !.failed_pages = LoadPages(@)]

\* _filter_new_pages: first occurrence of each URL, up to config.max_pages
\* in total
RECURSIVE FilterNewPages(_, _, _, _, _)
FilterNewPages(pages, i, seen, total, max_pages) ==
    IF i > Len(pages) THEN <<>>
    ELSE IF pages[i].url \notin seen /\ total < max_pages
    THEN <<pages[i]>> \o FilterNewPages(pages, i + 1, seen \cup {pages[i].url},
                                         total + 1, max_pages)
    ELSE FilterNewPages(pages, i + 1, seen, total, max_pages)

\* the for loop of _run_fetch_loop over batch[i..]: fetch, extract, discover
\* links, sort the results; inputs[i] is what the network and the parsers do
\* for batch[i]; acc carries the stages' state and the three lists
RECURSIVE ProcessBatch(_, _, _, _, _)
ProcessBatch(pages, inputs, i, t, acc) ==
    IF i > Len(pages) THEN acc
    ELSE LET fetched == ProcessItem(pages[i], acc.rate_limiter, acc.blocked_domains,
                                    t, inputs[i].fetch)
             acc1 == [acc EXCEPT !.rate_limiter = fetched.rate_limiter,
                                 !.blocked_domains = fetched.blocked_domains]
         IN  IF fetched.page.status = "fetched"
             THEN LET extracted == ContentExtraction(fetched.page, inputs[i].extraction)
                      found == LinkDiscovery(extracted, inputs[i].links, acc.seen_urls)
                      same == SelectSeq(found.pages, LAMBDA q : q.url = extracted.url)
                      other == SelectSeq(found.pages, LAMBDA q : q.url # extracted.url)
                  IN  ProcessBatch(pages, inputs, i + 1, t,
                          [acc1 EXCEPT !.seen_urls = found.seen_urls,
                                       !.completed_pages = @ \o same,
                                       !.new_pages = @ \o other,
                                       !.processed_count = @ + 1])
             ELSE ProcessBatch(pages, inputs, i + 1, t,
                          [acc1 EXCEPT !.failed_pages = Append(@, fetched.page)])

\* a dequeued batch is partly committed: some of its pages have left the
\* processing file while others are still there or are in neither the
\* completed nor the failed file
PartlyCommitted(pages, processing, completed, failed) ==
    LET out == {u \in UrlsOf(pages) : u \notin UrlsOf(processing)}
    IN  /\ out # {}
        /\ \/ out # UrlsOf(pages)
           \/ \E u \in out : u \notin UrlsOf(completed) \cup UrlsOf(failed)

\* _save_checkpoint: save_checkpoint opens the file and dumps job and state;
\* an exception of the write is logged by _save_checkpoint and goes no
\* further. A write that fails at open leaves the previous file.
SaveCheckpoint(job, ps, partly) ==
    /\ checkpoint' = IF io.disk = "ok" THEN CheckpointOf(job, ps) ELSE checkpoint
    /\ io' = [io EXCEPT !.save_failed = @ \/ io.disk # "ok",
                        !.partly_committed = @ \/ partly]

\* a PipelineManager with no job
InitManager ==
    /\ current_job = NoJob
    /\ pipeline_state = NewPipelineState("discovery")
    /\ checkpoint = NoCheckpoint
    /\ discovered_urls = {}
    /\ seen_urls = {}
    /\ pc = "idle"
    /\ batch = <<>>
    /\ loop = [processed_count |-> 0, consecutive_empty_batches |-> 0,
               exit |-> "none", result |-> "none"]
    /\ resumes = 0
    /\ atStop = [pending |-> <<>>, processing |-> <<>>]
    /\ io = [disk |-> "ok", save_failed |-> FALSE, partly_committed |-> FALSE]

-----------------------------------------------------------------------------
(* SpecFetch: process_item calls for new pages of one domain, with time      *)
(* passing between the calls                                                 *)

\* a response with an HTML body
Response(code, redirect, challenge, headers, rt, browser) ==
    [outcome |-> "response", status_code |-> code, redirect |-> redirect,
     challenge |-> challenge, headers |-> headers, response_time |-> rt,
     browser |-> browser, content_type |-> "text/html"]

Raised(exception) ==
    [outcome |-> exception, status_code |-> 0, redirect |-> "",
     challenge |-> FALSE, headers |-> NoHeaders, response_time |-> 0,
     browser |-> "success", content_type |-> "none"]

BrowserOutcomes == {"disabled", "success", "failure", "exception"}

FetchInputs ==
    {Response(200, r, FALSE, NoHeaders, 200, "success") : r \in {"", "B"}}
    \cup {Response(200, "", TRUE, NoHeaders, 200, b) : b \in BrowserOutcomes}
    \cup {Response(code, "", FALSE, NoHeaders, 200, "success") : code \in {403, 404, 429}}
    \cup {Response(429, "", FALSE, [zero |-> 0, retry |-> TRUE, prot |-> 1], 200, "success")}
    \cup {Raised(e) : e \in {"Request timeout", "Connection error", "Unexpected error"}}

\* the responses of the scenario 200, 429, 429, 429
ScenarioCodes == <<200, 429, 429, 429>>

\* scenario after a call: one more response matched, or -1 once a request
\* was answered otherwise
NextScenario(sc, res, inp) ==
    IF res.http_requests = 0 THEN sc
    ELSE IF /\ sc >= 0 /\ sc < Len(ScenarioCodes)
            /\ inp.outcome = "response" /\ ~inp.challenge
            /\ inp.status_code = ScenarioCodes[sc + 1]
    THEN sc + 1
    ELSE -1

InitFetch ==
    /\ InitFetcher(DefaultBaseDelay, DefaultMaxDelay)
    /\ InitManager
    /\ pending_file = <<>>
    /\ processing_file = <<>>
    /\ completed_file = <<>>
    /\ failed_file = <<>>
    /\ everAdded = {}
    /\ lastOp = [op |-> "none"]
    /\ nops = 0

FetchStep ==
    /\ nops < MaxFetches
    /\ nops' = nops + 1
    /\ UNCHANGED <<queueVars, everAdded, lastOp, streak429, jobVars>>

\* one process_item call for the page p of the domain
FProcessItemOf(p) ==
    \E inp \in FetchInputs :
        \E res \in {ProcessItem(p, rate_limiter, blocked_domains, now, inp)} :
            /\ FetchStep
            /\ rate_limiter' = res.rate_limiter
            /\ blocked_domains' = res.blocked_domains
            /\ page' = res.page
            /\ lastFetch' = [op |-> "process_item",
                             http_requests |-> res.http_requests,
                             browser_calls |-> res.browser_calls,
                             browser_requests |->
                                 IF res.browser_calls = 1 /\ inp.browser # "disabled"
                                 THEN 1 ELSE 0,
                             challenge |-> res.http_requests = 1 /\ inp.challenge,
                             handed |-> p,
                             redispatch_after_ms |->
                                 IF res.http_requests = 1 /\ res.browser_calls = 1
                                 THEN inp.response_time ELSE NoTime,
                             statuses |-> <<p.status>> \o ProcessItemStatuses(p, res, inp),
                             before |-> scenario,
                             cooldown |-> IsDomainBlocked(blocked_domains, now),
                             blocked_at |-> IF Domain \in DOMAIN blocked_domains
                                            THEN blocked_domains[Domain] ELSE NoTime]
            /\ scenario' = NextScenario(scenario, res, inp)
            /\ UNCHANGED now

\* the fetcher is handed a new page of the domain
FProcessItem == FProcessItemOf(NewPage("A"))

\* a discovered page whose error history records a bot challenge
ChallengedPage == [NewPage("A") EXCEPT !.error_message = <<"Bot challenge detected">>]

\* the fetcher is handed a page with a recorded bot challenge
FProcessChallengedPage == FProcessItemOf(ChallengedPage)

FTenMinutesPass ==
    /\ FetchStep
    /\ now' = now + 1
    /\ UNCHANGED <<rate_limiter, blocked_domains, page, lastFetch, scenario>>

FHourPasses ==
    /\ FetchStep
    /\ now' = now + CooldownTicks
    /\ UNCHANGED <<rate_limiter, blocked_domains, page, lastFetch, scenario>>

NextFetch ==
    \/ FProcessItem
    \/ FTenMinutesPass
    \/ FHourPasses

SpecFetch == InitFetch /\ [][NextFetch]_vars

\* SpecFetchAny: as SpecFetch, with pages of either error history
NextFetchAny ==
    \/ FProcessItem
    \/ FProcessChallengedPage
    \/ FTenMinutesPass
    \/ FHourPasses

SpecFetchAny == InitFetch /\ [][NextFetchAny]_vars

-----------------------------------------------------------------------------
(* SpecRecovery: fetch attempts for new pages of one domain go on for ever   *)
(* and hours pass between them. The code compares times only over windows   *)
(* of at most one hour, so the present is kept at tick CooldownTicks and an  *)
(* hour passing moves every recorded time one hour back, down to tick 0      *)
(* (an hour ago or earlier). MaxFetches bounds the requests that are sent,   *)
(* not the attempts.                                                         *)

RecoveryInputs ==
    {Response(200, "", FALSE, NoHeaders, 200, "success"),
     Response(429, "", FALSE, NoHeaders, 200, "success"),
     Response(403, "", FALSE, [zero |-> 0, retry |-> TRUE, prot |-> 1], 200, "success"),
     Raised("Request timeout")}

\* a recorded time after k more ticks have passed
Rebased(time, k) == IF time = NoTime THEN NoTime ELSE Max(0, time - k)

InitRecovery ==
    /\ rate_limiter = NewRateLimiter(DefaultBaseDelay, DefaultMaxDelay)
    /\ blocked_domains = [d \in {} |-> 0]
    /\ now = CooldownTicks
    /\ streak429 = 0
    /\ page = NewPage("A")
    /\ lastFetch = [op |-> "none", http_requests |-> 0]
    /\ scenario = 0
    /\ InitManager
    /\ pending_file = <<>>
    /\ processing_file = <<>>
    /\ completed_file = <<>>
    /\ failed_file = <<>>
    /\ everAdded = {}
    /\ lastOp = [op |-> "none"]
    /\ nops = 0

\* a fetch attempt for a new page of the domain
RProcessItem ==
    \E inp \in RecoveryInputs :
        \E res \in {ProcessItem(NewPage("A"), rate_limiter, blocked_domains, now, inp)} :
            /\ res.http_requests = 0 \/ nops < MaxFetches
            /\ nops' = nops + res.http_requests
            /\ rate_limiter' = res.rate_limiter
            /\ blocked_domains' = res.blocked_domains
            /\ page' = res.page
            /\ lastFetch' = [op |-> "process_item", http_requests |-> res.http_requests]
            /\ streak429' = IF res.http_requests = 0 THEN streak429
                            ELSE IF inp.outcome = "response" /\ inp.status_code = 429
                            THEN streak429 + 1 ELSE 0
            /\ UNCHANGED <<queueVars, everAdded, lastOp, now, scenario, jobVars>>

\* an hour passes
RHourPasses ==
    /\ rate_limiter' =
           [rate_limiter EXCEPT !.last_request_time = Rebased(@, CooldownTicks),
                                !.last_rate_limit_time = Rebased(@, CooldownTicks)]
    /\ blocked_domains' = [d \in DOMAIN blocked_domains |->
                               Rebased(blocked_domains[d], CooldownTicks)]
    /\ UNCHANGED <<queueVars, histVars, now, fetchHist, jobVars>>

NextRecovery ==
    \/ RProcessItem
    \/ RHourPasses

\* attempts keep being made and time keeps passing
SpecRecovery ==
    /\ InitRecovery
    /\ [][NextRecovery]_vars
    /\ WF_vars(RProcessItem)
    /\ WF_vars(RHourPasses)

-----------------------------------------------------------------------------
(* SpecQueue: any sequence of URLQueue calls on the files of one job *)

\* the URLs used in the calls of SpecQueue
QueueURLs == {"A", "B"}

\* duplicate-free lists of at most MaxArgs URLs
UrlLists ==
    UNION {{s \in [1..n -> QueueURLs] : \A i, j \in 1..n : i # j => s[i] # s[j]}
           : n \in 1..MaxArgs}

FreshPages(us) == [i \in 1..Len(us) |-> NewPage(us[i])]
PagesWithStatus(us, st) == [i \in 1..Len(us) |-> [NewPage(us[i]) EXCEPT !.status = st]]

Record(op, urls, crashed) ==
    /\ nops < MaxOps
    /\ nops' = nops + 1
    /\ lastOp' = [op |-> op, urls |-> urls, crashed |-> crashed]
    /\ UNCHANGED <<limVars, fetchHist, jobVars>>

InitQueue ==
    /\ InitFetcher(DefaultBaseDelay, DefaultMaxDelay)
    /\ InitManager
    /\ pending_file = <<>>
    /\ processing_file = <<>>
    /\ completed_file = <<>>
    /\ failed_file = <<>>
    /\ everAdded = {}
    /\ lastOp = [op |-> "none", urls |-> {}, crashed |-> FALSE]
    /\ nops = 0

QAddPending ==
    \E us \in UrlLists :
        /\ Record("add_pending", UrlsOf(FreshPages(us)), FALSE)
        /\ AddPending(FreshPages(us))
        /\ everAdded' = everAdded \cup UrlsOf(FreshPages(us))

\* a get_pending_batch call; lastOp also keeps its batch_size
RecordBatch(n, crashed) ==
    /\ nops < MaxOps
    /\ nops' = nops + 1
    /\ lastOp' = [op |-> "get_pending_batch", urls |-> UrlsOf(BatchOf(pending_file, n)),
                  crashed |-> crashed, batch_size |-> n]
    /\ UNCHANGED <<limVars, fetchHist, jobVars>>

QGetPendingBatch ==
    \E n \in 1..MaxArgs :
        /\ RecordBatch(n, FALSE)
        /\ GetPendingBatch(n)
        /\ UNCHANGED everAdded

QMarkCompleted ==
    \E us \in UrlLists :
        /\ Record("mark_completed", UrlsOf(FreshPages(us)), FALSE)
        /\ MarkCompleted(PagesWithStatus(us, "fetched"))
        /\ UNCHANGED everAdded

QMarkFailed ==
    \E us \in UrlLists :
        /\ Record("mark_failed", UrlsOf(FreshPages(us)), FALSE)
        /\ MarkFailed(PagesWithStatus(us, "failed"))
        /\ UNCHANGED everAdded

QCrashInGetPendingBatch ==
    \E n \in 1..MaxArgs :
        /\ RecordBatch(n, TRUE)
        /\ GetPendingBatchCrash(n)
        /\ UNCHANGED everAdded

QCrashInMarkCompleted ==
    \E us \in UrlLists :
        /\ Record("mark_completed", UrlsOf(FreshPages(us)), TRUE)
        /\ MarkCompletedCrash(PagesWithStatus(us, "fetched"))
        /\ UNCHANGED everAdded

QCrashInMarkFailed ==
    \E us \in UrlLists :
        /\ Record("mark_failed", UrlsOf(FreshPages(us)), TRUE)
        /\ MarkFailedCrash(PagesWithStatus(us, "failed"))
        /\ UNCHANGED everAdded

NextQueue ==
    \/ QAddPending
    \/ QGetPendingBatch
    \/ QMarkCompleted
    \/ QMarkFailed

SpecQueue == InitQueue /\ [][NextQueue]_vars

\* the same calls, any of which may be cut short by a crash of the process
NextQueueCrash ==
    \/ NextQueue
    \/ QCrashInGetPendingBatch
    \/ QCrashInMarkCompleted
    \/ QCrashInMarkFailed

SpecQueueCrash == InitQueue /\ [][NextQueueCrash]_vars

\* an add_pending, mark_completed or mark_failed call during which the read
\* of the file it appends to, which holds pages, fails (open or json.load
\* raises): _load_pages
\* logs the exception and returns [], _append_to_file extends that empty
\* list and _save_pages writes it; nothing is raised to the caller
QReadFails ==
    \E us \in UrlLists, op \in {"add_pending", "mark_completed", "mark_failed"} :
        /\ nops < MaxOps
        /\ nops' = nops + 1
        /\ lastOp' = [op |-> op, urls |-> UrlsOf(FreshPages(us)), crashed |-> FALSE,
                      read_failed |-> TRUE, raised |-> FALSE]
        /\ (IF op = "add_pending" THEN pending_file
            ELSE IF op = "mark_completed" THEN completed_file ELSE failed_file) # <<>>
        /\ IF op = "add_pending"
           THEN /\ pending_file' = FreshPages(us)
                /\ everAdded' = everAdded \cup UrlsOf(FreshPages(us))
                /\ UNCHANGED <<processing_file, completed_file, failed_file>>
           ELSE IF op = "mark_completed"
           THEN /\ processing_file' = WithoutUrls(processing_file, UrlsOf(FreshPages(us)))
                /\ completed_file' = PagesWithStatus(us, "fetched")
                /\ UNCHANGED <<pending_file, failed_file, everAdded>>
           ELSE /\ processing_file' = WithoutUrls(processing_file, UrlsOf(FreshPages(us)))
                /\ failed_file' = PagesWithStatus(us, "failed")
                /\ UNCHANGED <<pending_file, completed_file, everAdded>>
        /\ UNCHANGED <<limVars, fetchHist, jobVars>>

\* the calls of SpecQueue on a disk whose reads can fail
NextQueueIO ==
    \/ NextQueue
    \/ QReadFails

SpecQueueIO == InitQueue /\ [][NextQueueIO]_vars

-----------------------------------------------------------------------------
(* SpecLimiter: any sequence of calls on the rate limiter of one domain *)

\* (base_delay, max_delay) of the default and the large-university config
LimiterConfigs == {<<DefaultBaseDelay, DefaultMaxDelay>>,
                   <<UniversityBaseDelay, DefaultMaxDelay>>}

\* response times: untracked (the default 0.0), fast, slow
ResponseTimes == {0, 200, 4000}

\* status codes passed to on_error (0 = None)
ErrorCodes == {0, 403, 404, 429, 503}

HeaderSets == {NoHeaders,
               [zero |-> 0, retry |-> TRUE, prot |-> 0],
               [zero |-> 0, retry |-> FALSE, prot |-> 1]}

Severities == {"blocked", "throttled", "limited"}

\* the limiter after n on_success(rt) calls
RECURSIVE AfterSuccesses(_, _, _)
AfterSuccesses(r, n, rt) ==
    IF n = 0 THEN r ELSE AfterSuccesses(OnSuccess(r, rt), n - 1, rt)

\* a new limiter, or one that has seen ten untracked, four fast or four slow
\* successes
InitLimiter ==
    /\ \E c \in LimiterConfigs :
           \E pre \in {<<0, 0>>, <<10, 0>>, <<4, 200>>, <<4, 4000>>} :
               rate_limiter = AfterSuccesses(NewRateLimiter(c[1], c[2]), pre[1], pre[2])
    /\ blocked_domains = [d \in {} |-> 0]
    /\ now = 0
    /\ streak429 = 0
    /\ page = NewPage("A")
    /\ lastFetch = [op |-> "none"]
    /\ scenario = 0
    /\ InitManager
    /\ pending_file = <<>>
    /\ processing_file = <<>>
    /\ completed_file = <<>>
    /\ failed_file = <<>>
    /\ everAdded = {}
    /\ lastOp = [op |-> "none"]
    /\ nops = 0

LimiterStep ==
    /\ nops < MaxLimiterOps
    /\ nops' = nops + 1
    /\ UNCHANGED <<queueVars, everAdded, lastOp, page, lastFetch, scenario, jobVars>>

LOnSuccess ==
    \E rt \in ResponseTimes :
        /\ LimiterStep
        /\ rate_limiter' = OnSuccess(rate_limiter, rt)
        /\ streak429' = 0
        /\ UNCHANGED <<blocked_domains, now>>

LOnError ==
    \E code \in ErrorCodes, h \in HeaderSets :
        /\ LimiterStep
        /\ rate_limiter' = OnError(rate_limiter, code, h, now)
        /\ streak429' = IF code = 429 THEN streak429 + 1 ELSE streak429
        /\ UNCHANGED <<blocked_domains, now>>

LDegrade ==
    \E sev \in Severities :
        /\ LimiterStep
        /\ rate_limiter' = ApplyDegradation(rate_limiter, sev)
        /\ blocked_domains' = DegradeBlockedDomains(blocked_domains, sev, now)
        /\ UNCHANGED <<now, streak429>>

\* ten minutes pass
LTick ==
    /\ now < MaxLimiterTime
    /\ now' = now + 1
    /\ UNCHANGED <<queueVars, histVars, rate_limiter, blocked_domains, fetchHist, jobVars>>

NextLimiter ==
    \/ LOnSuccess
    \/ LOnError
    \/ LDegrade
    \/ LTick

SpecLimiter == InitLimiter /\ [][NextLimiter]_vars

-----------------------------------------------------------------------------
(* SpecDecay: the limiter of one domain through a few errors followed by a   *)
(* run of successes                                                          *)

\* number of on_error calls before the successes
MaxDecayErrors == 2
\* number of on_success calls explored
MaxSuccesses == 11

InitDecay ==
    /\ \E c \in LimiterConfigs : rate_limiter = NewRateLimiter(c[1], c[2])
    /\ blocked_domains = [d \in {} |-> 0]
    /\ now = 0
    /\ streak429 = 0
    /\ page = NewPage("A")
    /\ lastFetch = [op |-> "none"]
    /\ scenario = 0
    /\ InitManager
    /\ pending_file = <<>>
    /\ processing_file = <<>>
    /\ completed_file = <<>>
    /\ failed_file = <<>>
    /\ everAdded = {}
    /\ lastOp = [op |-> "none", streak |-> 0, elevated |-> TRUE, adjusted |-> FALSE,
                 decays |-> 0]
    /\ nops = 0

\* on_error(404) or on_error(429) before the first success; lastOp starts a
\* new streak
DOnError ==
    \E code \in {404, 429} :
        /\ lastOp.streak = 0
        /\ nops < MaxDecayErrors
        /\ nops' = nops + 1
        /\ rate_limiter' = OnError(rate_limiter, code, NoHeaders, now)
        /\ streak429' = IF code = 429 THEN streak429 + 1 ELSE streak429
        /\ lastOp' = [op |-> "on_error", streak |-> 0, elevated |-> TRUE,
                      adjusted |-> FALSE, decays |-> 0]
        /\ UNCHANGED <<queueVars, everAdded, blocked_domains, now, page, lastFetch,
                       scenario, jobVars>>

\* on_success(rt); lastOp counts the successes since the last error, whether
\* each was made at a delay above base_delay, whether the response-time
\* adjustment changed the delay, and how often the sustained-success decay
\* was applied (it alone sets success_count to 0); the response time is
\* untracked (the default 0.0) or fast
DOnSuccess ==
    \E rt \in {0, 200} :
        /\ lastOp.streak < MaxSuccesses
        /\ rate_limiter' = OnSuccess(rate_limiter, rt)
        /\ streak429' = 0
        /\ lastOp' = [op |-> "on_success",
                      streak |-> lastOp.streak + 1,
                      elevated |-> lastOp.elevated
                                   /\ rate_limiter.current_delay > rate_limiter.base_delay,
                      adjusted |-> lastOp.adjusted
                                   \/ (rate_limiter'.success_count # 0
                                       /\ rate_limiter'.current_delay
                                              # rate_limiter.current_delay),
                      decays |-> lastOp.decays
                                 + (IF rate_limiter'.success_count = 0 THEN 1 ELSE 0)]
        /\ UNCHANGED <<queueVars, everAdded, nops, blocked_domains, now, page, lastFetch,
                       scenario, jobVars>>

NextDecay ==
    \/ DOnError
    \/ DOnSuccess

SpecDecay == InitDecay /\ [][NextDecay]_vars

-----------------------------------------------------------------------------
(* SpecErrors: the outcomes of a few requests reported to the limiter of    *)
(* one domain, without response headers                                      *)

\* number of outcomes reported
MaxErrors == 4

\* the fetcher reports one outcome: on_success() for 200, on_error(code) for
\* the others (0 = None, 400 = a client error with no branch of its own);
\* lastOp keeps the call, the limiter before it and the number of 5xx errors
\* since the last success, this call included
EReport ==
    \E code \in ErrorCodes \cup {200, 400, 500} :
        /\ nops < MaxErrors
        /\ nops' = nops + 1
        /\ rate_limiter' = IF code = 200 THEN OnSuccess(rate_limiter, 0)
                           ELSE OnError(rate_limiter, code, NoHeaders, now)
        /\ streak429' = IF code = 429 THEN streak429 + 1
                        ELSE IF code = 200 THEN 0 ELSE streak429
        /\ lastOp' = [op |-> IF code = 200 THEN "on_success" ELSE "on_error",
                      code |-> code, before |-> rate_limiter, t |-> now,
                      server_errors |->
                          IF code = 200 THEN 0
                          ELSE IF code >= 500
                          THEN (IF lastOp.op = "none" THEN 0 ELSE lastOp.server_errors) + 1
                          ELSE IF lastOp.op = "none" THEN 0 ELSE lastOp.server_errors]
        /\ UNCHANGED <<queueVars, everAdded, blocked_domains, now, page, lastFetch,
                       scenario, jobVars>>

NextErrors == EReport

SpecErrors == InitDecay /\ [][NextErrors]_vars

-----------------------------------------------------------------------------
(* SpecFetchRetried: process_item calls for pages that have been retried    *)
(* after a 403 or a 429, with hours passing between the calls                *)

\* pages with retry_count 2 whose last status code is 403 or 429, as Page
\* objects of either status that a caller of the stage can hand in
RetriedPages ==
    {[NewPage("A") EXCEPT !.retry_count = 2, !.status_code = c, !.status = s,
                          !.error_message = <<"HTTP error">>]
        : c \in {403, 429}, s \in {"discovered", "failed"}}

FProcessRetriedPage == \E p \in RetriedPages : FProcessItemOf(p)

NextFetchRetried ==
    \/ FProcessRetriedPage
    \/ FHourPasses

SpecFetchRetried == InitFetch /\ [][NextFetchRetried]_vars

-----------------------------------------------------------------------------
(* SpecJob: one job of the PipelineManager: start_new_job, run_pipeline with *)
(* discovery and the fetch loop, KeyboardInterrupt, resume_job               *)

\* the sitemap's URLs in the order the set is iterated; <<>> is no sitemap
Sitemaps ==
    {<<>>} \cup
    UNION {{s \in [1..n -> URLs] : \A i, j \in 1..n : i # j => s[i] # s[j]}
           : n \in 1..Cardinality(URLs)}

\* the links of a fetched page
LinkLists == {<<>>, <<"A", "C">>}

\* what the site answers to the job's requests
JobFetchInputs ==
    {Response(200, r, FALSE, NoHeaders, 200, "success") : r \in {"", "B"}}
    \cup {Response(200, "", TRUE, NoHeaders, 200, "success")}
    \cup {Response(404, "", FALSE, NoHeaders, 200, "success")}
    \cup {Raised("Request timeout")}

PageInputs == [fetch : JobFetchInputs, extraction : BOOLEAN, links : LinkLists]

UrlSeq(pages) == [i \in 1..Len(pages) |-> pages[i].url]

\* the locals of _run_fetch_loop at its start; exit is why the loop was
\* left and result what run_pipeline returned (observation only)
NewLoop == [processed_count |-> 0, consecutive_empty_batches |-> 0,
            exit |-> "none", result |-> "none"]

\* start_new_job: job, pipeline state, queue files of the new job_id, and
\* the initial checkpoint
JStartNewJob ==
    /\ pc = "idle"
    /\ current_job' = NewJob
    /\ pipeline_state' = UpdateProgress(NewPipelineState("discovery"), pending_file,
                                        processing_file, completed_file, failed_file)
    /\ SaveCheckpoint(current_job', pipeline_state', FALSE)
    /\ pc' = "started"
    /\ UNCHANGED <<queueVars, histVars, limVars, fetchHist, discovered_urls,
                   seen_urls, batch, loop, resumes, atStop>>

\* run_pipeline in stage discovery: job.start, _run_url_discovery,
\* advance_stage(FETCH), _save_checkpoint, and into the fetch loop
JRunDiscovery ==
    /\ pc \in {"started", "resumed"}
    /\ pipeline_state.current_stage = "discovery"
    /\ \E sitemap \in Sitemaps :
        LET d == UrlDiscovery(sitemap, discovered_urls)
            pages == IF d.pages # <<>> THEN d.pages ELSE <<NewPage(SeedUrl)>>
            pend == AppendToFile(pending_file, pages)
            job1 == [current_job EXCEPT !.status = "running", !.total_pages = Len(pages)]
            ps1 == UpdateProgress([pipeline_state EXCEPT !.current_stage = "fetch"],
                                  pend, processing_file, completed_file, failed_file)
        IN  /\ pending_file' = pend
            /\ discovered_urls' = d.discovered_urls
            /\ current_job' = job1
            /\ pipeline_state' = ps1
            /\ SaveCheckpoint(job1, ps1, FALSE)
    /\ pc' = "loop"
    /\ loop' = NewLoop
    /\ UNCHANGED <<processing_file, completed_file, failed_file, histVars, limVars,
                   fetchHist, seen_urls, batch, resumes, atStop>>

\* run_pipeline in stage fetch (a resumed job): job.start and into the loop
JEnterFetchLoop ==
    /\ pc \in {"started", "resumed"}
    /\ pipeline_state.current_stage = "fetch"
    /\ current_job' = [current_job EXCEPT !.status = "running"]
    /\ pc' = "loop"
    /\ loop' = NewLoop
    /\ UNCHANGED <<queueVars, histVars, limVars, fetchHist, pipeline_state, checkpoint,
                   discovered_urls, seen_urls, batch, resumes, atStop, io>>

\* top of the while loop: get_pending_batch; an empty batch is counted
JDequeue ==
    /\ pc = "loop"
    /\ loop.consecutive_empty_batches < MaxEmptyBatches
    /\ GetPendingBatch(BatchSize)
    /\ IF Len(pending_file) = 0
       THEN /\ loop' = [loop EXCEPT !.consecutive_empty_batches = @ + 1]
            /\ UNCHANGED <<batch, pc>>
       ELSE /\ loop' = [loop EXCEPT !.consecutive_empty_batches = 0]
            /\ batch' = BatchOf(pending_file, BatchSize)
            /\ pc' = "batch"
    /\ UNCHANGED <<histVars, limVars, fetchHist, current_job, pipeline_state, checkpoint,
                   discovered_urls, seen_urls, resumes, atStop, io>>

\* the for loop over the dequeued batch, from the manager's state
BatchResult(inputs) ==
    ProcessBatch(batch, inputs, 1, now,
        [rate_limiter |-> rate_limiter, blocked_domains |-> blocked_domains,
         seen_urls |-> seen_urls, completed_pages |-> <<>>,
         failed_pages |-> <<>>, new_pages |-> <<>>,
         processed_count |-> loop.processed_count])

\* "Update queues" and "Update job statistics": mark_completed, mark_failed,
\* add_pending of the filtered new pages; each mark_ call rewrites the
\* processing file and then appends to its own file. after_remove_completed
\* is the processing file between the two writes of mark_completed.
CommitOf(done, max_pages) ==
    LET proc1 == IF done.completed_pages # <<>>
                 THEN WithoutUrls(processing_file, UrlsOf(done.completed_pages))
                 ELSE processing_file
        comp == IF done.completed_pages # <<>>
                THEN AppendToFile(completed_file, done.completed_pages)
                ELSE completed_file
        proc2 == IF done.failed_pages # <<>>
                 THEN WithoutUrls(proc1, UrlsOf(done.failed_pages))
                 ELSE proc1
        fail == IF done.failed_pages # <<>>
                THEN AppendToFile(failed_file, done.failed_pages)
                ELSE failed_file
        filtered == FilterNewPages(done.new_pages, 1, {}, current_job.total_pages,
                                   max_pages)
        pend == IF filtered # <<>> THEN AppendToFile(pending_file, filtered)
                ELSE pending_file
    IN  [pending |-> pend, processing |-> proc2, completed |-> comp, failed |-> fail,
         after_remove_completed |-> proc1,
         job |-> [current_job EXCEPT !.total_pages = @ + Len(filtered),
                                     !.processed_pages = done.processed_count,
                                     !.failed_pages = Len(done.failed_pages)]]

\* the rest of the iteration: the pages of the batch through the stages, the
\* queue updates, the job counters, the periodic checkpoint, the page limit
\* config.max_pages; page_inputs is what the site can do for a page
JProcessBatchWith(page_inputs, max_pages) ==
    /\ pc = "batch"
    /\ \E inputs \in [1..Len(batch) -> page_inputs] :
        LET done == BatchResult(inputs)
            c == CommitOf(done, max_pages)
            ps1 == UpdateProgress(pipeline_state, c.pending, c.processing, c.completed,
                                  c.failed)
        IN  /\ pending_file' = c.pending
            /\ processing_file' = c.processing
            /\ completed_file' = c.completed
            /\ failed_file' = c.failed
            /\ rate_limiter' = done.rate_limiter
            /\ blocked_domains' = done.blocked_domains
            /\ seen_urls' = done.seen_urls
            /\ current_job' = c.job
            /\ loop' = [loop EXCEPT !.processed_count = done.processed_count]
            /\ IF done.processed_count % CheckpointInterval = 0
               THEN /\ pipeline_state' = ps1
                    /\ SaveCheckpoint(c.job, ps1,
                           PartlyCommitted(batch, c.processing, c.completed, c.failed))
               ELSE UNCHANGED <<pipeline_state, checkpoint, io>>
            /\ pc' = IF c.job.total_pages >= max_pages THEN "exit" ELSE "loop"
    /\ batch' = <<>>
    /\ UNCHANGED <<histVars, now, fetchHist, discovered_urls, resumes, atStop>>

JProcessBatch == JProcessBatchWith(PageInputs, MaxPages)

\* JExitLoop without the final _save_checkpoint
JExitLoopWithoutCheckpoint ==
    /\ pc \in {"loop", "exit"}
    /\ current_job' = [current_job EXCEPT !.status = "completed"]
    /\ loop' = [loop EXCEPT !.exit = "deadline", !.result = "success"]
    /\ pc' = "finished"
    /\ UNCHANGED <<queueVars, histVars, limVars, fetchHist, discovered_urls, seen_urls,
                   batch, resumes, atStop, pipeline_state, checkpoint, io>>

\* the loop ends (deadline reached, five empty batches, or the page limit):
\* final checkpoint, then job.complete
JExitLoop ==
    /\ pc \in {"loop", "exit"}
    /\ LET ps1 == UpdateProgress(pipeline_state, pending_file, processing_file,
                                 completed_file, failed_file)
       IN  /\ pipeline_state' = ps1
           /\ SaveCheckpoint(current_job, ps1,
                  PartlyCommitted(batch, processing_file, completed_file, failed_file))
    /\ current_job' = [current_job EXCEPT !.status = "completed"]
    /\ loop' = [loop EXCEPT
                   !.exit = IF pc = "exit" THEN "limit"
                            ELSE IF loop.consecutive_empty_batches >= MaxEmptyBatches
                            THEN "exhausted" ELSE "deadline",
                   !.result = "success"]
    /\ pc' = "finished"
    /\ UNCHANGED <<queueVars, histVars, limVars, fetchHist, discovered_urls, seen_urls,
                   batch, resumes, atStop>>

\* KeyboardInterrupt during the fetch loop: pause_job saves a checkpoint and
\* the process ends
JInterrupt ==
    /\ pc \in {"loop", "batch"}
    /\ current_job' = [current_job EXCEPT !.status = "paused"]
    /\ pipeline_state' = UpdateProgress(pipeline_state, pending_file, processing_file,
                                        completed_file, failed_file)
    /\ SaveCheckpoint(current_job', pipeline_state',
           PartlyCommitted(batch, processing_file, completed_file, failed_file))
    /\ atStop' = [pending |-> UrlSeq(pending_file), processing |-> UrlSeq(processing_file)]
    /\ batch' = <<>>
    /\ pc' = "stopped"
    /\ UNCHANGED <<queueVars, histVars, limVars, fetchHist, discovered_urls, seen_urls,
                   loop, resumes>>

\* resume_job in a new process: new stages and limiters, job and pipeline
\* state from the checkpoint, a URLQueue on the job's files, add_pending of
\* the checkpoint's pending pages if there are any
JResume ==
    /\ pc = "stopped"
    /\ resumes < MaxResumes
    /\ checkpoint.exists
    /\ resumes' = resumes + 1
    /\ LET loaded == DeserializeCheckpoint(checkpoint)
       IN  /\ current_job' = loaded.job
           /\ pipeline_state' = loaded.pipeline_state
           /\ IF loaded.pending_pages # <<>>
              THEN AddPending(loaded.pending_pages)
              ELSE UNCHANGED queueVars
    /\ discovered_urls' = {}
    /\ seen_urls' = {}
    /\ rate_limiter' = NewRateLimiter(DefaultBaseDelay, DefaultMaxDelay)
    /\ blocked_domains' = [d \in {} |-> 0]
    /\ loop' = NewLoop
    /\ pc' = "resumed"
    /\ io' = [io EXCEPT !.save_failed = FALSE, !.partly_committed = FALSE]
    /\ UNCHANGED <<histVars, now, fetchHist, checkpoint, batch, atStop>>

InitJob ==
    /\ InitFetcher(DefaultBaseDelay, DefaultMaxDelay)
    /\ InitManager
    /\ pending_file = <<>>
    /\ processing_file = <<>>
    /\ completed_file = <<>>
    /\ failed_file = <<>>
    /\ everAdded = {}
    /\ lastOp = [op |-> "none"]
    /\ nops = 0

NextJob ==
    \/ JStartNewJob
    \/ JRunDiscovery
    \/ JEnterFetchLoop
    \/ JDequeue
    \/ JProcessBatch
    \/ JExitLoop
    \/ JInterrupt
    \/ JResume

SpecJob == InitJob /\ [][NextJob]_vars

-----------------------------------------------------------------------------
(* SpecJobRun: one uninterrupted run of a new job in a process that keeps    *)
(* running                                                                   *)

NextJobRun ==
    \/ JStartNewJob
    \/ JRunDiscovery
    \/ JDequeue
    \/ JProcessBatch
    \/ JExitLoop

\* run_pipeline is one thread that goes from each step to the next: every
\* request returns (session.get and the browser have timeouts) and the
\* clock reaches the deadline
SpecJobRun == InitJob /\ [][NextJobRun]_vars /\ WF_vars(NextJobRun)

------------------------------------------------------------------------------
(* SpecJobFaults: the first run of a new job on a machine whose checkpoint  *)
(* directory can stop accepting writes and whose user can interrupt the run  *)
(* while a batch is being committed                                          *)

\* the methods of the commit in which a KeyboardInterrupt can land between
\* the rewrite of the processing file and the append to the method's own file
CommitCuts == {"mark_completed", "mark_failed"}

\* during the run the directory stops accepting writes: from now on
\* open(checkpoint_file, 'w') raises OSError
JDiskFails ==
    /\ pc \in {"started", "loop", "batch", "exit"}
    /\ io.disk = "ok"
    /\ io' = [io EXCEPT !.disk = "failing"]
    /\ UNCHANGED <<queueVars, histVars, limVars, fetchHist, current_job, pipeline_state,
                   checkpoint, discovered_urls, seen_urls, pc, batch, loop, resumes,
                   atStop>>

\* KeyboardInterrupt inside mark_completed or mark_failed, after
\* _save_pages(processing_file) and before _append_to_file: it passes the
\* except Exception clauses, and main's handler calls pause_job, which saves
\* a checkpoint; the job counters of the batch have not been assigned
JInterruptInCommit ==
    /\ pc = "batch"
    /\ \E inputs \in [1..Len(batch) -> PageInputs], cut \in CommitCuts :
        LET done == BatchResult(inputs)
            c == CommitOf(done, MaxPages)
            proc == IF cut = "mark_completed" THEN c.after_remove_completed
                    ELSE c.processing
            comp == IF cut = "mark_completed" THEN completed_file ELSE c.completed
            job1 == [current_job EXCEPT !.status = "paused"]
            ps1 == UpdateProgress(pipeline_state, pending_file, proc, comp, failed_file)
        IN  /\ IF cut = "mark_completed" THEN done.completed_pages # <<>>
               ELSE done.failed_pages # <<>>
            /\ processing_file' = proc
            /\ completed_file' = comp
            /\ rate_limiter' = done.rate_limiter
            /\ blocked_domains' = done.blocked_domains
            /\ seen_urls' = done.seen_urls
            /\ loop' = [loop EXCEPT !.processed_count = done.processed_count]
            /\ current_job' = job1
            /\ pipeline_state' = ps1
            /\ SaveCheckpoint(job1, ps1, PartlyCommitted(batch, proc, comp, failed_file))
            /\ atStop' = [pending |-> UrlSeq(pending_file), processing |-> UrlSeq(proc)]
    /\ batch' = <<>>
    /\ pc' = "stopped"
    /\ UNCHANGED <<pending_file, failed_file, histVars, now, fetchHist, discovered_urls,
                   resumes>>

\* one run of a new job, up to its end or its interruption
NextJobFaults ==
    \/ JStartNewJob
    \/ JRunDiscovery
    \/ JDequeue
    \/ JProcessBatch
    \/ JExitLoop
    \/ JInterrupt
    \/ JDiskFails
    \/ JInterruptInCommit

SpecJobFaults == InitJob /\ [][NextJobFaults]_vars

-----------------------------------------------------------------------------
(* SpecJobDiskFaults: a job that is started, interrupted and resumed before *)
(* any of its batches is processed, with a checkpoint directory that can     *)
(* stop accepting writes                                                     *)

NextJobDiskFaults ==
    \/ JStartNewJob
    \/ JRunDiscovery
    \/ JEnterFetchLoop
    \/ JDequeue
    \/ JExitLoop
    \/ JInterrupt
    \/ JResume
    \/ JDiskFails

SpecJobDiskFaults == InitJob /\ [][NextJobDiskFaults]_vars

-----------------------------------------------------------------------------
(* SpecDiscovery: the discovery stage of a new job on sites whose URLs do   *)
(* not all pass the filters                                                  *)

Sites == [URLs -> UrlClasses]

\* run_pipeline in stage discovery as in JRunDiscovery, on a site with
\* filtered URLs; lastOp records the site
DRunUrlDiscovery ==
    /\ pc = "started"
    /\ pipeline_state.current_stage = "discovery"
    /\ \E sitemap \in Sitemaps, site \in Sites :
        LET d == UrlDiscoveryOnSite(sitemap, site, discovered_urls)
            pages == IF d.pages # <<>> THEN d.pages ELSE <<NewPage(SeedUrl)>>
            pend == AppendToFile(pending_file, pages)
            job1 == [current_job EXCEPT !.status = "running", !.total_pages = Len(pages)]
            ps1 == UpdateProgress([pipeline_state EXCEPT !.current_stage = "fetch"],
                                  pend, processing_file, completed_file, failed_file)
        IN  /\ pending_file' = pend
            /\ discovered_urls' = d.discovered_urls
            /\ current_job' = job1
            /\ pipeline_state' = ps1
            /\ SaveCheckpoint(job1, ps1, FALSE)
            /\ lastOp' = [op |-> "run_url_discovery", site |-> site,
                          yielded |-> UrlSeq(d.pages)]
    /\ pc' = "loop"
    /\ loop' = NewLoop
    /\ UNCHANGED <<processing_file, completed_file, failed_file, everAdded, nops, limVars,
                   fetchHist, seen_urls, batch, resumes, atStop>>

NextDiscovery ==
    \/ JStartNewJob
    \/ DRunUrlDiscovery

SpecDiscovery == InitJob /\ [][NextDiscovery]_vars

-----------------------------------------------------------------------------
(* SpecJobWide: one run of a new job whose batches hold several pages, so   *)
(* that the processed count can advance by more than one in a batch, on a    *)
(* site that serves HTML pages and other documents                           *)

\* batch_size of the fetch loop, scaled so that one batch spans more than
\* one checkpoint interval
WideBatch == 3
\* config.max_pages of a job whose limit the site does not reach
WideMaxPages == 5

\* the site also serves a document that is not HTML
WidePageInputs ==
    PageInputs \cup
    {[fetch |-> [Response(200, "", FALSE, NoHeaders, 200, "success")
                     EXCEPT !.content_type = "application/pdf"],
      extraction |-> TRUE, links |-> <<>>]}

JProcessBatchWide == JProcessBatchWith(WidePageInputs, WideMaxPages)

\* top of the while loop as in JDequeue, with batches of WideBatch pages
JDequeueWide ==
    /\ pc = "loop"
    /\ loop.consecutive_empty_batches < MaxEmptyBatches
    /\ GetPendingBatch(WideBatch)
    /\ IF Len(pending_file) = 0
       THEN /\ loop' = [loop EXCEPT !.consecutive_empty_batches = @ + 1]
            /\ UNCHANGED <<batch, pc>>
       ELSE /\ loop' = [loop EXCEPT !.consecutive_empty_batches = 0]
            /\ batch' = BatchOf(pending_file, WideBatch)
            /\ pc' = "batch"
    /\ UNCHANGED <<histVars, limVars, fetchHist, current_job, pipeline_state, checkpoint,
                   discovered_urls, seen_urls, resumes, atStop, io>>

NextJobWide ==
    \/ JStartNewJob
    \/ JRunDiscovery
    \/ JDequeueWide
    \/ JProcessBatchWide
    \/ JExitLoop

SpecJobWide == InitJob /\ [][NextJobWide]_vars

-----------------------------------------------------------------------------
(* Claims about the URLQueue *)

\* C1: after any sequence of add_pending, get_pending_batch, mark_completed
\* and mark_failed calls from empty queues, pending + processing + completed
\* + failed (get_counts) equals the number of distinct URLs ever passed to
\* add_pending.
C1_Conservation ==
    GetCounts.pending + GetCounts.processing + GetCounts.completed
    + GetCounts.failed = Cardinality(everAdded)

\* C4: a crash between two file writes of get_pending_batch, mark_completed
\* or mark_failed loses no page: every URL held by one of the four files
\* before the call is still held by one of them after the crash.
C4_CrashLosesNoPage ==
    [][lastOp'.crashed =>
          \A u \in URLs : InQueues(u) > 0 => InQueues(u)' > 0]_vars

\* C5: mark_completed (mark_failed) of pages that an earlier call has already
\* moved out of processing into completed (failed) changes none of the four
\* queues.
C5_SecondMarkIsNoOp ==
    [][/\ ~lastOp'.crashed
       /\ \/ /\ lastOp'.op = "mark_completed"
             /\ \A u \in lastOp'.urls : Occurrences(completed_file, u) = 1
          \/ /\ lastOp'.op = "mark_failed"
             /\ \A u \in lastOp'.urls : Occurrences(failed_file, u) = 1
       /\ \A u \in lastOp'.urls :
             /\ u \in everAdded
             /\ Occurrences(pending_file, u) = 0
             /\ Occurrences(processing_file, u) = 0
       => queueVars' = queueVars]_vars

\* C6: add_pending of pages whose URLs were all enqueued earlier in the job
\* is rejected: the four queues stay as they are.
C6_EnqueueRejectsSeen ==
    [][/\ lastOp'.op = "add_pending"
       /\ lastOp'.urls \subseteq everAdded
       => queueVars' = queueVars]_vars

-----------------------------------------------------------------------------
(* Claims about the rate limiter *)

C8_SeverityAfter429 ==
    /\ streak429 >= 3 =>
           GetBlockingSeverity(rate_limiter, now) \in {"throttled", "blocked"}
    /\ rate_limiter.rate_limit_violations > 2 =>
           GetBlockingSeverity(rate_limiter, now) = "blocked"

\* three 429 errors in a row, more than ten minutes ago
C8_Witness ==
    /\ streak429 >= 3
    /\ rate_limiter.rate_limit_violations > 2
    /\ now > rate_limiter.last_rate_limit_time

-----------------------------------------------------------------------------
(* Claims about the fetcher *)

C10_ChallengeEscalation ==
    (lastFetch.op = "process_item" /\ lastFetch.challenge) =>
        /\ page.html_content # "http"
        /\ ~(page.status = "fetched" /\ page.extraction_method = "requests")
        /\ lastFetch.browser_calls = 1
        /\ page.status \in {"fetched", "failed"}

\* a challenge whose browser attempt failed too
C10_Witness ==
    /\ lastFetch.op = "process_item"
    /\ lastFetch.challenge
    /\ page.status = "failed"
    /\ page.error_message = <<"Browser fetch failed">>

-----------------------------------------------------------------------------
(* Claims about the job run *)

\* C2: during a job run (discovery, then fetch-loop batches, with redirected
\* fetches and self-links) every URL occurs at most once in the pending,
\* processing, completed and failed queues together.
C2_AtMostOncePerUrl ==
    (pc \in {"loop", "batch", "exit", "finished"} /\ resumes = 0) =>
        \A u \in URLs : InQueues(u) <= 1

\* C3: if the run stopped with pending = [A, B] and processing = [C], then
\* after resume_job, before the first dequeue, pending holds A, B and C once
\* each and processing is empty.
C3_ResumeRequeuesProcessing ==
    (/\ pc = "resumed"
     /\ atStop.pending = <<"A", "B">>
     /\ atStop.processing = <<"C">>) =>
        /\ \A u \in {"A", "B", "C"} : Occurrences(pending_file, u) = 1
        /\ Len(pending_file) = 3
        /\ processing_file = <<>>

-----------------------------------------------------------------------------
(* Claims about cooldown and recovery *)

\* C11: a process_item call made while the domain is inside its cooldown
\* window returns the page failed and issues no request, neither by HTTP nor
\* by the browser, whatever the page's error history.
C11_CooldownShortCircuits ==
    (lastFetch.op = "process_item" /\ lastFetch.cooldown) =>
        /\ lastFetch.http_requests = 0
        /\ lastFetch.browser_requests = 0
        /\ page.status = "failed"

-----------------------------------------------------------------------------
(* Claims about persistence and the run *)

\* C13: what is read back from the queue files and from the checkpoint file
\* equals what was written, field by field, extraction_method included.
C13_RoundTrip ==
    /\ \A file \in {pending_file, processing_file, completed_file, failed_file} :
           LoadPages(file) = file
    /\ checkpoint.exists => DeserializeCheckpoint(checkpoint) = checkpoint

\* C14: when the fetch loop has been left, for the deadline, the page limit
\* or five empty batches, the checkpoint on disk was written after the last
\* batch commit: it holds the job counters and the queue counts as they are;
\* and after a deadline exit run_pipeline has returned success and the job is
\* not failed.
C14_FinalCheckpoint ==
    pc = "finished" =>
        /\ loop.exit \in {"deadline", "limit", "exhausted"}
        /\ checkpoint.exists
        /\ checkpoint.pipeline_state =
               UpdateProgress(pipeline_state, pending_file, processing_file,
                              completed_file, failed_file)
        /\ checkpoint.job = [current_job EXCEPT !.status = "running"]
        /\ loop.exit = "deadline" =>
               (loop.result = "success" /\ current_job.status # "failed")

\* a deadline exit after a batch that wrote no periodic checkpoint
C14_Witness ==
    /\ pc = "finished"
    /\ loop.exit = "deadline"
    /\ loop.processed_count % CheckpointInterval # 0
    /\ completed_file # <<>>

\* C15: after a KeyboardInterrupt the checkpoint on disk has the job paused
\* in its current stage; and when the resumed run has gone on until the
\* queue was exhausted, every page that was pending or processing at the
\* interruption has been fetched: none is left pending or processing.
C15_InterruptLosesNoPage ==
    /\ pc = "stopped" =>
           /\ checkpoint.exists
           /\ checkpoint.job.status = "paused"
           /\ checkpoint.pipeline_state.current_stage = pipeline_state.current_stage
    /\ (pc = "finished" /\ resumes > 0 /\ loop.exit = "exhausted") =>
           \A i \in 1..Len(atStop.pending \o atStop.processing) :
               (atStop.pending \o atStop.processing)[i]
                   \notin UrlsOf(pending_file) \cup UrlsOf(processing_file)

\* C16: when a checkpoint write of the run has failed with an I/O error,
\* run_pipeline has raised and the job's status is failed; the run does not
\* go on as if the checkpoint had been saved
C16_CheckpointErrorIsFatal ==
    io.save_failed =>
        /\ current_job.status = "failed"
        /\ pc \notin {"loop", "batch", "exit", "finished"}

\* C17: a page whose fetch failed with a timeout is in the failed queue only
\* when its max_retries retries are used up, each retry counted in
\* retry_count, which never passes max_retries; the job does not fail
C17_TransientFailureIsRetried ==
    /\ \A i \in 1..Len(failed_file) :
           /\ ~CanRetry(failed_file[i]) => failed_file[i].retry_count = max_retries
           /\ failed_file[i].error_message = <<"Request timeout">>
                  => ~CanRetry(failed_file[i])
    /\ current_job.status # "failed"

\* C18: a page whose fetch, extraction or link discovery raised an unexpected
\* exception is marked failed and committed to the failed queue, never to
\* the completed queue; the loop goes on with the next batch
C18_ExceptionPageGoesToFailed ==
    /\ \A i \in 1..Len(completed_file) : completed_file[i].status # "failed"
    /\ \A i \in 1..Len(failed_file) : failed_file[i].status = "failed"
    /\ loop.result # "raised"

\* C19: no checkpoint write of the run has met a partly committed batch: at
\* each write, the pages of the dequeued batch were either all still in
\* processing or all moved into completed or failed
C19_CheckpointSeesWholeBatches ==
    ~io.partly_committed

\* C20: job.total_pages is at most max_pages after discovery and after every
\* batch, and the loop takes no batch from the queue once total_pages has
\* reached max_pages
C20_PageLimit ==
    [][/\ current_job'.total_pages <= MaxPages
       /\ (pc = "loop" /\ pc' = "batch") => current_job.total_pages < MaxPages]_vars

-----------------------------------------------------------------------------
(* Claims about discovery, stages and page states *)

\* C21: every URL that initial discovery or the homepage fallback has put in
\* the pending queue passes every filter (domain, extension, pattern,
\* robots.txt) and is there once
C21_EnqueuedUrlsPassFilters ==
    lastOp.op = "run_url_discovery" =>
        \A i \in 1..Len(pending_file) :
            /\ lastOp.site[pending_file[i].url] = "ok"
            /\ Occurrences(pending_file, pending_file[i].url) = 1

\* C22: the current stage of the job's pipeline state never goes back to an
\* earlier stage, in a run or over a resume, and a job resumed with the
\* checkpointed stage fetch does not run discovery again
C22_StageOnlyAdvances ==
    [][/\ StageRank(pipeline_state'.current_stage) >= StageRank(pipeline_state.current_stage)
       /\ (pc = "resumed" /\ checkpoint.pipeline_state.current_stage = "fetch")
              => discovered_urls' = discovered_urls]_vars

\* C23: every checkpoint the manager writes holds in its four page lists the
\* contents of the four queue files at the moment of the write
C23_CheckpointHoldsQueues ==
    [][checkpoint' # checkpoint =>
          /\ checkpoint'.pending_pages = pending_file'
          /\ checkpoint'.processing_pages = processing_file'
          /\ checkpoint'.completed_pages = completed_file'
          /\ checkpoint'.failed_pages = failed_file']_vars

\* C24: a page handed to process_item with a bot challenge in its error
\* history, or with retry_count > 1 and a last status code of 403 or 429,
\* goes through the browser path, and no plain HTTP request is sent for it
C24_BrowserDirectly ==
    (/\ lastFetch.op = "process_item"
     /\ \/ ShouldUseBrowser([lastFetch.handed EXCEPT !.retry_count = 0])
        \/ (lastFetch.handed.retry_count > 1 /\ lastFetch.handed.status_code \in {403, 429}))
        => (lastFetch.browser_calls = 1 /\ lastFetch.http_requests = 0)

\* C25: every process_item call on a page in status discovered leaves the
\* page in status fetched or failed, on the plain HTTP path, on the direct
\* browser path and on the escalation to the browser after a challenge
C25_EndsFetchedOrFailed ==
    (lastFetch.op = "process_item" /\ lastFetch.handed.status = "discovered")
        => page.status \in {"fetched", "failed"}

\* a page with a recorded challenge went straight to the browser, which failed
C25_Witness ==
    /\ lastFetch.op = "process_item"
    /\ lastFetch.handed = ChallengedPage
    /\ lastFetch.http_requests = 0
    /\ lastFetch.browser_requests = 1
    /\ page.status = "failed"

C27_ErrorMessageAppendOnly ==
    lastFetch.op = "process_item" =>
        /\ Len(page.error_message) >= Len(lastFetch.handed.error_message)
        /\ \A i \in 1..Len(lastFetch.handed.error_message) :
               page.error_message[i] = lastFetch.handed.error_message[i]
        /\ lastFetch.challenge =>
               \E i \in 1..Len(page.error_message) :
                   page.error_message[i] = "Bot challenge detected"

\* C28: a process_item call whose HTTP 200 response is detected as a bot
\* challenge leaves the page's retry_count as it was, and the limiter's
\* consecutive_errors, rate_limit_violations, blocking_indicators and
\* current_delay as they were when the request was sent
C28_ChallengeLeavesCounters ==
    [][(lastFetch'.op = "process_item" /\ lastFetch'.challenge /\ nops' # nops
            /\ now' = now) =>
          LET r == LimiterAtRequest(rate_limiter, now)
          IN  /\ page'.retry_count = lastFetch'.handed.retry_count
              /\ rate_limiter'.consecutive_errors = r.consecutive_errors
              /\ rate_limiter'.rate_limit_violations = r.rate_limit_violations
              /\ rate_limiter'.blocking_indicators = r.blocking_indicators
              /\ rate_limiter'.current_delay = r.current_delay]_vars

\* a challenge met on a domain that has errors on its record
C28_Witness ==
    /\ lastFetch.op = "process_item"
    /\ lastFetch.challenge
    /\ rate_limiter.consecutive_errors > 0
    /\ rate_limiter.rate_limit_violations > 0

\* C29: between the starts of two consecutive requests to the domain at
\* least the limiter's current_delay elapses: when a call sends an HTTP
\* request and then a browser request, the browser request starts no sooner
\* than current_delay after the HTTP request
C29_WaitBeforeEveryRequest ==
    (/\ lastFetch.op = "process_item"
     /\ lastFetch.http_requests = 1
     /\ lastFetch.browser_requests = 1)
        => lastFetch.redispatch_after_ms >= rate_limiter.current_delay

\* C30: a batch that was dequeued is processed and committed in full before
\* the loop is left: when its processing ends, each of its pages is out of
\* the processing queue and in the completed or the failed queue; and once
\* the loop has ended at the deadline, no batch is dequeued any more
C30_DeadlineIsCooperative ==
    [][/\ (pc = "batch" /\ pc' \in {"loop", "exit"}) =>
              \A u \in UrlsOf(batch) :
                  /\ u \notin UrlsOf(processing_file')
                  /\ u \in UrlsOf(completed_file') \cup UrlsOf(failed_file')
       /\ loop.exit = "deadline" =>
              (pending_file' = pending_file /\ processing_file' = processing_file)]_vars

\* C33: get_pending_batch(n) moves the min(n, number pending) oldest pending
\* pages, in their order, from the head of pending to the tail of
\* processing; add_pending puts the new pages after all pages already
\* pending
C33_FifoQueue ==
    [][/\ (lastOp'.op = "get_pending_batch" /\ nops' # nops) =>
              LET k == Min(lastOp'.batch_size, Len(pending_file))
              IN  /\ UrlSeq(pending_file')
                         = SubSeq(UrlSeq(pending_file), k + 1, Len(pending_file))
                  /\ UrlSeq(processing_file')
                         = UrlSeq(processing_file) \o SubSeq(UrlSeq(pending_file), 1, k)
                  /\ completed_file' = completed_file
                  /\ failed_file' = failed_file
       /\ (lastOp'.op = "add_pending" /\ nops' # nops) =>
              LET added == SubSeq(UrlSeq(pending_file'), Len(pending_file) + 1,
                                  Len(pending_file'))
              IN  /\ SubSeq(UrlSeq(pending_file'), 1, Len(pending_file))
                         = UrlSeq(pending_file)
                  /\ Len(added) = Cardinality(lastOp'.urls)
                  /\ {added[i] : i \in 1..Len(added)} = lastOp'.urls]_vars

\* C33 happens: a batch shorter than the pending queue has been dequeued
\* while pages added by two calls were pending, and the processing queue
\* already held a page
C33_Witness ==
    /\ lastOp.op = "get_pending_batch"
    /\ Len(pending_file) >= 2
    /\ Len(processing_file) >= 2

\* C36: a failed read of a queue file is raised to the caller and does not
\* change queue contents: after a call that could not read the file it
\* appends to, the pages that file held are still in it
C36_ReadFailureIsRaised ==
    [][("read_failed" \in DOMAIN lastOp' /\ nops' # nops) =>
          /\ lastOp'.raised
          /\ SubSeq(UrlSeq(pending_file'), 1, Len(pending_file)) = UrlSeq(pending_file)
          /\ SubSeq(UrlSeq(completed_file'), 1, Len(completed_file))
                 = UrlSeq(completed_file)
          /\ SubSeq(UrlSeq(failed_file'), 1, Len(failed_file)) = UrlSeq(failed_file)]_vars

\* C37: the fetch loop eventually exits and run_pipeline returns; and when
\* the loop exits by queue exhaustion (five consecutive empty batches),
\* pending and processing are both empty
C37_LoopExitsWithEmptyQueues ==
    /\ <>(pc = "finished")
    /\ []((pc = "finished" /\ loop.exit = "exhausted")
           => (pending_file = <<>> /\ processing_file = <<>>))

-----------------------------------------------------------------------------
(* Claims about the decay and the error branches of the rate limiter *)

\* C34: after 10 consecutive on_success calls, each made while current_delay
\* was above base_delay and none with the response-time adjustment firing,
\* the sustained-success decay has been applied at least once, and the delay
\* is not below base_delay
C34_DecayAfterTenSuccesses ==
    /\ rate_limiter.current_delay >= rate_limiter.base_delay
    /\ (lastOp.streak >= 10 /\ lastOp.elevated /\ ~lastOp.adjusted)
           => lastOp.decays >= 1

\* C35: on_error without headers adds 1 to consecutive_errors and then, by
\* status code: 429 adds a violation, records the time, delay x 2.5; 403 adds
\* exactly 3 indicators, delay x 2; 5xx delay x 1.5 and 1 indicator once more
\* than 3 such errors have come since the last success; 404 delay x 1.1 and
\* no indicator; any other outcome delay x 1.2 and exactly 1 indicator; each
\* product capped at max_delay
C35_ErrorBranches ==
    lastOp.op = "on_error" =>
        LET b == lastOp.before
            r == rate_limiter
            code == lastOp.code
        IN  /\ r.consecutive_errors = b.consecutive_errors + 1
            /\ IF code = 429
               THEN /\ r.rate_limit_violations = b.rate_limit_violations + 1
                    /\ r.last_rate_limit_time = lastOp.t
                    /\ r.current_delay = Min(b.max_delay, (b.current_delay * 25) \div 10)
               ELSE IF code = 403
               THEN /\ r.blocking_indicators = b.blocking_indicators + 3
                    /\ r.current_delay = Min(b.max_delay, b.current_delay * 2)
               ELSE IF code >= 500
               THEN /\ r.current_delay = Min(b.max_delay, (b.current_delay * 15) \div 10)
                    /\ r.blocking_indicators =
                           b.blocking_indicators
                           + (IF lastOp.server_errors > 3 THEN 1 ELSE 0)
               ELSE IF code = 404
               THEN /\ r.current_delay = Min(b.max_delay, (b.current_delay * 11) \div 10)
                    /\ r.blocking_indicators = b.blocking_indicators
               ELSE /\ r.current_delay = Min(b.max_delay, (b.current_delay * 12) \div 10)
                    /\ r.blocking_indicators = b.blocking_indicators + 1

\* C35 happens: a fourth 5xx error since the last success has added its
\* indicator, with the product of the delay cut at max_delay
C35_Witness ==
    /\ lastOp.op = "on_error"
    /\ lastOp.code >= 500
    /\ lastOp.server_errors > 3
    /\ rate_limiter.blocking_indicators = lastOp.before.blocking_indicators + 1

-----------------------------------------------------------------------------
(* Claims about checkpoints, counters and the stages of the fetch loop *)

\* C31: whenever the processed count reaches or crosses a multiple of
\* checkpoint_interval during a batch, a checkpoint is written at the end of
\* that batch: the checkpoint file then records the new processed count
C31_CheckpointEveryInterval ==
    [][(pc = "batch" /\ pc' = "loop"
        /\ \E k \in (loop.processed_count + 1)..loop'.processed_count :
               k % CheckpointInterval = 0)
       => (checkpoint'.exists
           /\ checkpoint'.job.processed_pages = loop'.processed_count)]_vars

\* C32: the extraction stage transforms a page only when its should_process
\* is true: no page in the completed or the failed queue has been extracted
\* (status extracted, or failed by an extraction error) unless it was a
\* fetched page with HTML content
C32_ExtractionIsGated ==
    \A i \in 1..Len(completed_file \o failed_file) :
        LET p == (completed_file \o failed_file)[i]
        IN  (p.status = "extracted" \/ p.error_message = <<"Content extraction error">>)
            => ExtractionShouldProcess([p EXCEPT !.status = "fetched"])

\* C38: the persisted job status tracks the in-memory one at the end of a
\* run: when run_pipeline has returned success, the checkpoint on disk
\* records the job status completed
C38_CheckpointRecordsCompleted ==
    (pc = "finished" /\ loop.result = "success")
        => (checkpoint.exists /\ checkpoint.job.status = "completed"
            /\ current_job.status = "completed")

\* C39: the job counters are cumulative: after every batch commit
\* job.failed_pages is the number of pages in the failed queue, and neither
\* failed_pages nor processed_pages is lower than before the batch
C39_CountersAreCumulative ==
    [][(pc = "batch" /\ pc' \in {"loop", "exit"}) =>
          /\ current_job'.failed_pages = Len(failed_file')
          /\ current_job'.failed_pages >= current_job.failed_pages
          /\ current_job'.processed_pages >= current_job.processed_pages]_vars

\* C40: queue membership matches page status after every batch commit: no
\* page in the completed queue has the status failed, and every page in the
\* failed queue has it
C40_QueueMatchesStatus ==
    /\ \A i \in 1..Len(completed_file) : completed_file[i].status # "failed"
    /\ \A i \in 1..Len(failed_file) : failed_file[i].status = "failed"

==============================================================================
